---------------------------- MODULE Spec2Model ----------------------------
(***************************************************************************)
(* Model of disk_generator.py: the cycloidal disk page.                    *)
(*                                                                         *)
(* The script is one top-to-bottom run per page load: the form, the        *)
(* default parameters, validate_inputs, the message display, the equation  *)
(* strings, the equation cards and the preview.  The model follows that    *)
(* run step by step (pc), and a second specification, SpecV, applies       *)
(* validate_inputs to raw candidates the widgets would never deliver.      *)
(*                                                                         *)
(* Numbers.  A Python number is a record [ty, n, d]: its type ("int" or    *)
(* "float") and its value n/d as an exact fraction, d > 0.  The inputs     *)
(* are binary fractions (halves), for which the products, quotients and    *)
(* comparisons validate_inputs makes are exact in double precision too.    *)
(* NaN and the infinities are not modelled.                                *)
(*                                                                         *)
(* Text.  A Python string is a sequence of one-character strings, so that  *)
(* concatenation, startswith, lower and substring search are computed.     *)
(* Four characters are written by their code points: "U+2265"             *)
(* (greater-or-equal), "U+00D7" (multiplication), "U+2208" (element of)    *)
(* and "U+0060" (backquote).                                               *)
(***************************************************************************)
EXTENDS Integers, Sequences, FiniteSets, TLC

VARIABLES
    pc,         \* position of the script run
    generate,   \* st.form_submit_button("Generate")
    R_p,        \* pin circle radius
    e,          \* eccentricity
    r,          \* pin radius
    N,          \* number of pins
    ok,         \* validate_inputs(...)[0]
    msgs,       \* validate_inputs(...)[1]
    x_expr,     \* equation text for x(t)
    y_expr,     \* equation text for y(t)
    diag,       \* diagnostics returned by sample_curve
    phi_div,    \* the divisors sample_curve used for phi: which kinds occurred
    shown,      \* what the page has output so far, in order
    calls       \* the calls of make_sw_equations and sample_curve, in order

vars == <<pc, generate, R_p, e, r, N, ok, msgs, x_expr, y_expr, diag,
          phi_div, shown, calls>>

---------------------------------------------------------------------------
(* Bounds of the model *)

\* R_p is drawn from 5, 10, ..., 5*MaxRpSteps (mm).
MaxRpSteps == 5
\* e is drawn from 0, 0.5, ..., MaxEHalves/2 (mm).
MaxEHalves == 5
\* r is drawn from 0.5, 1, ..., MaxRHalves/2 (mm).
MaxRHalves == 1
\* N is drawn from 2 .. MaxN.
MaxN == 10
\* SpecV: R_p, e, r are drawn from -MaxCand/2 .. MaxCand/2 in halves.
MaxCand == 3
\* SpecV: an int N is drawn from -1 .. MaxCandN.
MaxCandN == 3

---------------------------------------------------------------------------
(* Python numbers *)

Int_(k) == [ty |-> "int", n |-> k, d |-> 1]
Float_(num, den) == [ty |-> "float", n |-> num, d |-> den]

\* a * b, and a / b (true division; the caller has excluded b = 0)
Mul(a, b) ==
    [ty |-> IF a.ty = "int" /\ b.ty = "int" THEN "int" ELSE "float",
     n |-> a.n * b.n, d |-> a.d * b.d]

Div(a, b) ==
    [ty |-> "float",
     n |-> IF b.n < 0 THEN -(a.n * b.d) ELSE a.n * b.d,
     d |-> IF b.n < 0 THEN -(a.d * b.n) ELSE a.d * b.n]

\* a <= b, a == b for numbers
Leq(a, b) == a.n * b.d <= b.n * a.d
NumEq(a, b) == a.n * b.d = b.n * a.d

Zero == Int_(0)
One == Float_(1, 1)
MinusOne == Float_(-1, 1)

\* int(x): truncation toward zero
int(x) ==
    Int_(IF x.n >= 0 THEN x.n \div x.d ELSE -((-x.n) \div x.d))

\* float(x)
float(x) == Float_(x.n, x.d)

---------------------------------------------------------------------------
(* Python strings *)

Digits == <<"0", "1", "2", "3", "4", "5", "6", "7", "8", "9">>
DigitChar(k) == Digits[k + 1]

RECURSIVE NatDigits(_)
\* the decimal digits of k >= 0, most significant first; <<>> for 0
NatDigits(k) == IF k = 0 THEN <<>> ELSE Append(NatDigits(k \div 10), k % 10)

RECURSIVE DigitText(_)
DigitText(ds) ==
    IF ds = <<>> THEN <<>> ELSE <<DigitChar(Head(ds))>> \o DigitText(Tail(ds))

\* str(k) for an int
str(x) ==
    IF x.n = 0 THEN <<"0">>
    ELSE (IF x.n < 0 THEN <<"-">> ELSE <<>>)
         \o DigitText(NatDigits(IF x.n < 0 THEN -x.n ELSE x.n))

\* s with its trailing zeros removed
RECURSIVE StripZeros(_)
StripZeros(ds) ==
    IF ds # <<>> /\ ds[Len(ds)] = 0
    THEN StripZeros(SubSeq(ds, 1, Len(ds) - 1)) ELSE ds

\* k zeros
Zeros(k) == [i \in 1..k |-> 0]

\* the next k digits of rem/den after the decimal point, and what is left
RECURSIVE FracDigits(_, _, _)
FracDigits(rem, den, k) ==
    IF k = 0 THEN <<>>
    ELSE <<(rem * 10) \div den>> \o FracDigits((rem * 10) % den, den, k - 1)

RECURSIVE FracRem(_, _, _)
FracRem(rem, den, k) ==
    IF k = 0 THEN rem ELSE FracRem((rem * 10) % den, den, k - 1)

\* the number of zeros between the decimal point and the first nonzero
\* digit of rem/den, for 0 < rem < den
RECURSIVE LeadZeros(_, _)
LeadZeros(rem, den) ==
    IF rem * 10 >= den THEN 0 ELSE 1 + LeadZeros(rem * 10, den)

\* the digit string ds plus one in its last place (one digit longer when
\* every digit was 9)
RECURSIVE Incr(_)
Incr(ds) ==
    IF ds = <<>> THEN <<1>>
    ELSE IF ds[Len(ds)] < 9
         THEN SubSeq(ds, 1, Len(ds) - 1) \o <<ds[Len(ds)] + 1>>
         ELSE Incr(SubSeq(ds, 1, Len(ds) - 1)) \o <<0>>

\* The rounding of a digit string to P digits: all holds at least P + 1
\* digits of the value, rest says whether nonzero digits follow them, X is
\* the decimal exponent of the first digit.  Correctly rounded, ties to even.
RoundUp(all, rest, P) ==
    \/ all[P + 1] > 5
    \/ /\ all[P + 1] = 5
       /\ \/ rest
          \/ \E j \in (P + 2)..Len(all) : all[j] # 0
          \/ all[P] % 2 = 1

Carry(inc, X, P) ==
    IF Len(inc) > P
    THEN [sig |-> SubSeq(inc, 1, P), exp |-> X + 1]
    ELSE [sig |-> inc, exp |-> X]

RoundSig(all, rest, X, P) ==
    Carry(IF RoundUp(all, rest, P)
          THEN Incr(SubSeq(all, 1, P)) ELSE SubSeq(all, 1, P), X, P)

\* a value below one, rem/den with lz zeros after the decimal point
SigSmall(rem, den, lz, P) ==
    RoundSig(SubSeq(FracDigits(rem, den, lz + P + 1), lz + 1, lz + P + 1),
             FracRem(rem, den, lz + P + 1) # 0, -(lz + 1), P)

\* a value of at least one, with the digits intDs before the decimal point
\* and rem/den after it
SigLarge(intDs, rem, den, nfrac, P) ==
    RoundSig(intDs \o FracDigits(rem, den, nfrac),
             FracRem(rem, den, nfrac) # 0, Len(intDs) - 1, P)

\* |x| > 0 to P significant digits:
\* [sig |-> the P digits, exp |-> the decimal exponent of the first one]
Significand(a, den, P) ==
    IF a \div den = 0
    THEN SigSmall(a, den, LeadZeros(a, den), P)
    ELSE SigLarge(NatDigits(a \div den), a % den, den,
                  IF Len(NatDigits(a \div den)) > P THEN 0
                  ELSE P + 1 - Len(NatDigits(a \div den)), P)

\* the exponent of the exponent notation: a sign and at least two digits
ExponentText(X) ==
    (IF X < 0 THEN <<"-">> ELSE <<"+">>)
    \o (IF X = 0 THEN <<"0", "0">>
        ELSE IF X < 10 /\ X > -10
             THEN <<"0">> \o DigitText(NatDigits(IF X < 0 THEN -X ELSE X))
             ELSE DigitText(NatDigits(IF X < 0 THEN -X ELSE X)))

\* exponent notation: d[.ddd]e+XX, of the digits without trailing zeros
SciText(short, X) ==
    <<DigitChar(short[1])>>
    \o (IF Len(short) > 1 THEN <<".">> \o DigitText(Tail(short)) ELSE <<>>)
    \o <<"e">> \o ExponentText(X)

\* fixed notation: the integer part, and the fraction when it is not zero
FixedText(ip, fr) ==
    DigitText(ip) \o (IF fr # <<>> THEN <<".">> \o DigitText(fr) ELSE <<>>)

\* the 'g' presentation of a significand: exponent notation when the
\* exponent is below -4 or not below the precision, trailing zeros removed
GText(s, P) ==
    IF s.exp < -4 \/ s.exp >= P
    THEN SciText(StripZeros(s.sig), s.exp)
    ELSE IF s.exp >= 0
    THEN FixedText(SubSeq(s.sig, 1, s.exp + 1),
                   StripZeros(SubSeq(s.sig, s.exp + 2, P)))
    ELSE FixedText(<<0>>, Zeros(-s.exp - 1) \o StripZeros(s.sig))

\* format(x, ".{P}g") for a float x
FormatG(x, P) ==
    IF x.n = 0 THEN <<"0">>
    ELSE (IF x.n < 0 THEN <<"-">> ELSE <<>>)
         \o GText(Significand(IF x.n < 0 THEN -x.n ELSE x.n, x.d, P), P)

\* _fmt_num(x) = format(float(x), ".12g")
_fmt_num(x) == FormatG(float(x), 12)

---------------------------------------------------------------------------
(* validate_inputs *)

\* a - b
Sub(a, b) ==
    [ty |-> IF a.ty = "int" /\ b.ty = "int" THEN "int" ELSE "float",
     n |-> a.n * b.d - b.n * a.d, d |-> a.d * b.d]

\* "Number of pins must be an integer ≥ 2."
MsgPins ==
    <<"N", "u", "m", "b", "e", "r", " ", "o", "f", " ", "p", "i", "n", "s",
      " ", "m", "u", "s", "t", " ", "b", "e", " ", "a", "n", " ", "i", "n",
      "t", "e", "g", "e", "r", " ", "U+2265", " ", "2", ".">>

\* "All geometry parameters must be positive."
MsgPositive ==
    <<"A", "l", "l", " ", "g", "e", "o", "m", "e", "t", "r", "y", " ", "p",
      "a", "r", "a", "m", "e", "t", "e", "r", "s", " ", "m", "u", "s", "t",
      " ", "b", "e", " ", "p", "o", "s", "i", "t", "i", "v", "e", ".">>

\* "Eccentricity × Pin Count must be non-zero."
MsgNonZero ==
    <<"E", "c", "c", "e", "n", "t", "r", "i", "c", "i", "t", "y", " ",
      "U+00D7", " ", "P", "i", "n", " ", "C", "o", "u", "n", "t", " ", "m",
      "u", "s", "t", " ", "b", "e", " ", "n", "o", "n", "-", "z", "e", "r",
      "o", ".">>

\* f"Warning: R_p/(e×N) = {RpeN:.6g} ∈ [-1,1]. May cause singularities in
\* SolidWorks."
MsgRatio(RpeN) ==
    <<"W", "a", "r", "n", "i", "n", "g", ":", " ", "R", "_", "p", "/", "(",
      "e", "U+00D7", "N", ")", " ", "=", " ">>
    \o FormatG(RpeN, 6) \o
    <<" ", "U+2208", " ", "[", "-", "1", ",", "1", "]", ".", " ", "M", "a",
      "y", " ", "c", "a", "u", "s", "e", " ", "s", "i", "n", "g", "u", "l",
      "a", "r", "i", "t", "i", "e", "s", " ", "i", "n", " ", "S", "o", "l",
      "i", "d", "W", "o", "r", "k", "s", ".">>

\* faulty variant: the type test is forgotten
Rule1Fails_NoType(p) == ~Leq(Int_(2), p.N)

\* not (isinstance(N, (int, np.integer)) and N >= 2)
Rule1Fails(p) == ~(p.N.ty = "int" /\ Leq(Int_(2), p.N))

\* faulty variant: < for <=
Rule2Fails_Strict(p) ==
    ~Leq(Zero, p.R_p) \/ ~Leq(Zero, p.e) \/ ~Leq(Zero, p.r)

\* faulty variant: e is not tested
Rule2Fails_NoE(p) == Leq(p.R_p, Zero) \/ Leq(p.r, Zero)

\* R_p <= 0 or e <= 0 or r <= 0
Rule2Fails(p) == Leq(p.R_p, Zero) \/ Leq(p.e, Zero) \/ Leq(p.r, Zero)

\* e * N == 0
Rule3Fails(p) == NumEq(Mul(p.e, p.N), Zero)

\* faulty variant: the endpoints are left out
InUnitInterval_Open(x) == ~Leq(x, MinusOne) /\ ~Leq(One, x)

\* -1.0 <= RpeN <= 1.0
InUnitInterval(x) == Leq(MinusOne, x) /\ Leq(x, One)

\* faulty variant: ok is not cleared
Fail_KeepsOk(s, m) == [ok |-> s.ok, msgs |-> Append(s.msgs, m)]

\* ok = False; msgs.append(m)
Fail(s, m) == [ok |-> FALSE, msgs |-> Append(s.msgs, m)]

\* validate_inputs(R_p, e, r, N), p the four arguments: [ok, msgs]
validate_inputs(p) ==
    LET s0 == [ok |-> TRUE, msgs |-> <<>>]
        s1 == IF Rule1Fails(p) THEN Fail(s0, MsgPins) ELSE s0
        s2 == IF Rule2Fails(p) THEN Fail(s1, MsgPositive) ELSE s1
    IN  IF Rule3Fails(p)
        THEN Fail(s2, MsgNonZero)
        ELSE LET RpeN == Div(p.R_p, Mul(p.e, p.N))
             IN  IF InUnitInterval(RpeN)
                 THEN [ok |-> s2.ok, msgs |-> Append(s2.msgs, MsgRatio(RpeN))]
                 ELSE s2

---------------------------------------------------------------------------
(* make_sw_equations *)

\* R_p / (e * N_int) raises ZeroDivisionError when e * N_int is zero, in
\* make_sw_equations and in sample_curve alike
ZeroDivisionError(p) == NumEq(Mul(p.e, int(p.N)), Zero)

\* faulty variant: the arctangent under its conventional name
atn_call_atan(N_, RpeN) ==
    <<"a", "t", "a", "n", "(", "s", "i", "n", "(">> \o N_
    \o <<"*", "t", ")", "/", "(">> \o RpeN
    \o <<"-", "c", "o", "s", "(">> \o N_
    \o <<"*", "t", ")", ")", ")">>

\* "atn(sin({N_}*t)/({RpeN}-cos({N_}*t)))", the arctangent of both strings
atn_call(N_, RpeN) ==
    <<"a", "t", "n", "(", "s", "i", "n", "(">> \o N_
    \o <<"*", "t", ")", "/", "(">> \o RpeN
    \o <<"-", "c", "o", "s", "(">> \o N_
    \o <<"*", "t", ")", ")", ")">>

\* x_expr = f"({Rp}*cos(t)) - "
\*          f"({rr}*cos(t+atn(sin({N_}*t)/({RpeN}-cos({N_}*t))))) - "
\*          f"({ee}*cos({Nn}*t))"
x_text(Rp, ee, rr, Nn, N_, RpeN) ==
    <<"(">> \o Rp
    \o <<"*", "c", "o", "s", "(", "t", ")", ")", " ", "-", " ">>
    \o <<"(">> \o rr
    \o <<"*", "c", "o", "s", "(", "t", "+">> \o atn_call(N_, RpeN)
    \o <<")", ")", " ", "-", " ">>
    \o <<"(">> \o ee
    \o <<"*", "c", "o", "s", "(">> \o Nn
    \o <<"*", "t", ")", ")">>

\* y_expr = f"(-{Rp}*sin(t)) + "
\*          f"({rr}*sin(t+atn(sin({N_}*t)/({RpeN}-cos({N_}*t))))) + "
\*          f"({ee}*sin({Nn}*t))"
y_text(Rp, ee, rr, Nn, N_, RpeN) ==
    <<"(", "-">> \o Rp
    \o <<"*", "s", "i", "n", "(", "t", ")", ")", " ", "+", " ">>
    \o <<"(">> \o rr
    \o <<"*", "s", "i", "n", "(", "t", "+">> \o atn_call(N_, RpeN)
    \o <<")", ")", " ", "+", " ">>
    \o <<"(">> \o ee
    \o <<"*", "s", "i", "n", "(">> \o Nn
    \o <<"*", "t", ")", ")">>

\* make_sw_equations(R_p, e, r, N), p the four arguments: <<x_expr, y_expr>>
make_sw_equations(p) ==
    LET N_int == int(p.N)
        _N_ == Sub(Int_(1), N_int)
        R_p_e_N == Div(p.R_p, Mul(p.e, N_int))
        Rp == _fmt_num(p.R_p)
        ee == _fmt_num(p.e)
        rr == _fmt_num(p.r)
        Nn == str(N_int)
        N_ == _fmt_num(_N_)
        RpeN == _fmt_num(R_p_e_N)
    IN  <<x_text(Rp, ee, rr, Nn, N_, RpeN), y_text(Rp, ee, rr, Nn, N_, RpeN)>>

---------------------------------------------------------------------------
(* sample_curve *)

(***************************************************************************)
(* The sampled values are held in fixed point: [hi, lo] stands for         *)
(* hi + lo/EpsInv with 0 <= lo < EpsInv, so that one unit of lo is         *)
(* eps = 1e-9, the tolerance of the singularity test.  X, Y and phi are    *)
(* arrays of floats no decision of the program reads; of phi the model     *)
(* keeps the divisors.                                                     *)
(***************************************************************************)

\* eps = 1e-9 and atol = 1e-9, as the number of units in 1.0
EpsInv == 1000000000

\* samples = 1000, the default sample count
samples == 1000

\* the float x in fixed point (rounded down to a multiple of eps)
RECURSIVE FracUnits(_, _, _, _)
FracUnits(rem, den, k, acc) ==
    IF k = 0 THEN acc
    ELSE FracUnits((rem * 10) % den, den, k - 1,
                   acc * 10 + (rem * 10) \div den)

Fx(x) == [hi |-> x.n \div x.d, lo |-> FracUnits(x.n % x.d, x.d, 9, 0)]

\* u units of eps in fixed point, for |u| <= EpsInv
FxUnits(u) == [hi |-> u \div EpsInv, lo |-> u % EpsInv]

\* a - b
FxSub(a, b) ==
    IF a.lo >= b.lo
    THEN [hi |-> a.hi - b.hi, lo |-> a.lo - b.lo]
    ELSE [hi |-> a.hi - b.hi - 1, lo |-> (a.lo + EpsInv) - b.lo]

FxZero == FxUnits(0)

\* np.cos at the angles 2*pi*k/999, k = 0 .. 499, in units of eps
\* (rounded to the nearest unit)
CosTab ==
    <<1000000000, 999980221, 999920886, 999821997, 999683557, 999505572,
      999288050, 999030998, 998734427, 998398349, 998022777, 997607726,
      997153212, 996659254, 996125870, 995553082, 994940912, 994289386,
      993598528, 992868365, 992098928, 991290246, 990442350, 989555276,
      988629057, 987663731, 986659336, 985615910, 984533497, 983412138,
      982251877, 981052762, 979814838, 978538156, 977222765, 975868718,
      974476068, 973044871, 971575182, 970067060, 968520565, 966935758,
      965312702, 963651460, 961952099, 960214685, 958439288, 956625978,
      954774826, 952885906, 950959292, 948995060, 946993289, 944954057,
      942877445, 940763536, 938612413, 936424160, 934198865, 931936616,
      929637501, 927301613, 924929043, 922519885, 920074235, 917592189,
      915073845, 912519304, 909928666, 907302033, 904639510, 901941202,
      899207215, 896437658, 893632640, 890792273, 887916668, 885005940,
      882060203, 879079574, 876064171, 873014113, 869929521, 866810517,
      863657225, 860469768, 857248273, 853992868, 850703681, 847380843,
      844024484, 840634738, 837211739, 833755622, 830266523, 826744582,
      823189936, 819602728, 815983098, 812331190, 808647148, 804931119,
      801183248, 797403685, 793592578, 789750079, 785876340, 781971514,
      778035754, 774069218, 770072062, 766044443, 761986522, 757898459,
      753780415, 749632553, 745455039, 741248036, 737011711, 732746231,
      728451767, 724128487, 719776562, 715396164, 710987468, 706550646,
      702085876, 697593333, 693073194, 688525640, 683950849, 679349003,
      674720284, 670064875, 665382960, 660674723, 655940353, 651180035,
      646393958, 641582311, 636745285, 631883072, 626995862, 622083850,
      617147231, 612186198, 607200949, 602191681, 597158592, 592101880,
      587021747, 581918393, 576792019, 571642829, 566471027, 561276816,
      556060403, 550821993, 545561794, 540280015, 534976863, 529652549,
      524307284, 518941278, 513554744, 508147895, 502720946, 497274110,
      491807603, 486321641, 480816442, 475292224, 469749203, 464187601,
      458607637, 453009531, 447393506, 441759783, 436108585, 430440136,
      424754659, 419052381, 413333526, 407598320, 401846991, 396079766,
      390296873, 384498541, 378684999, 372856478, 367013207, 361155418,
      355283343, 349397214, 343497263, 337583725, 331656833, 325716821,
      319763925, 313798379, 307820421, 301830286, 295828212, 289814435,
      283789194, 277752727, 271705273, 265647071, 259578361, 253499382,
      247410376, 241311583, 235203244, 229085601, 222958896, 216823372,
      210679270, 204526835, 198366309, 192197936, 186021960, 179838626,
      173648178, 167450860, 161246919, 155036600, 148820147, 142597808,
      136369828, 130136453, 123897930, 117654507, 111406429, 105153945,
      98897300, 92636744, 86372523, 80104886, 73834080, 67560353, 61283953,
      55005130, 48724130, 42441203, 36156597, 29870561, 23583344, 17295193,
      11006359, 4717089, -1572368, -7861762, -14150846, -20439370,
      -26727085, -33013743, -39299095, -45582892, -51864886, -58144829,
      -64422471, -70697566, -76969863, -83239116, -89505076, -95767496,
      -102026127, -108280722, -114531034, -120776816, -127017820,
      -133253799, -139484507, -145709698, -151929125, -158142541,
      -164349703, -170550362, -176744276, -182931197, -189110883,
      -195283088, -201447568, -207604079, -213752378, -219892221,
      -226023366, -232145570, -238258591, -244362188, -250456118,
      -256540140, -262614015, -268677501, -274730359, -280772349,
      -286803233, -292822771, -298830727, -304826861, -310810937,
      -316782718, -322741969, -328688452, -334621933, -340542178,
      -346448952, -352342021, -358221152, -364086113, -369936672,
      -375772597, -381593657, -387399623, -393190264, -398965351,
      -404724657, -410467953, -416195011, -421905606, -427599512,
      -433276503, -438936354, -444578843, -450203745, -455810838,
      -461399901, -466970711, -472523050, -478056697, -483571433,
      -489067040, -494543302, -500000000, -505436920, -510853846,
      -516250564, -521626860, -526982522, -532317338, -537631097,
      -542923589, -548194604, -553443935, -558671372, -563876710,
      -569059742, -574220264, -579358071, -584472960, -589564729,
      -594633176, -599678102, -604699305, -609696588, -614669754,
      -619618604, -624542944, -629442579, -634317315, -639166959,
      -643991319, -648790204, -653563425, -658310793, -663032120,
      -667727219, -672395904, -677037992, -681653297, -686241638,
      -690802833, -695336702, -699843065, -704321744, -708772562,
      -713195343, -717589911, -721956094, -726293718, -730602612,
      -734882605, -739133528, -743355213, -747547492, -751710201,
      -755843174, -759946248, -764019260, -768062050, -772074457,
      -776056324, -780007491, -783927803, -787817105, -791675243,
      -795502065, -799297419, -803061154, -806793123, -810493177,
      -814161170, -817796957, -821400394, -824971338, -828509649,
      -832015186, -835487811, -838927387, -842333776, -845706845,
      -849046460, -852352489, -855624801, -858863267, -862067759,
      -865238149, -868374313, -871476126, -874543466, -877576212,
      -880574243, -883537440, -886465687, -889358868, -892216868,
      -895039575, -897826876, -900578661, -903294822, -905975251,
      -908619842, -911228490, -913801093, -916337548, -918837755,
      -921301615, -923729031, -926119907, -928474148, -930791661,
      -933072354, -935316137, -937522922, -939692621, -941825148,
      -943920419, -945978351, -947998862, -949981873, -951927306,
      -953835082, -955705128, -957537368, -959331730, -961088144,
      -962806540, -964486850, -966129007, -967732947, -969298606,
      -970825922, -972314834, -973765284, -975177215, -976550570,
      -977885296, -979181339, -980438648, -981657174, -982836867,
      -983977683, -985079574, -986142499, -987166415, -988151280,
      -989097057, -990003708, -990871198, -991699490, -992488554,
      -993238358, -993948871, -994620067, -995251918, -995844400,
      -996397489, -996911162, -997385401, -997820186, -998215499,
      -998571326, -998887652, -999164464, -999401753, -999599507,
      -999757720, -999876385, -999955498, -999995055>>

\* np.cos(2*pi*k/(samples - 1)) for an integer k: the cosine is even and
\* 2*pi-periodic
np_cos(k) ==
    LET m == k % (samples - 1)
    IN  FxUnits(CosTab[(IF 2 * m > samples - 1 THEN (samples - 1) - m ELSE m) + 1])

\* np.sign(a)
np_sign(a) == IF a.hi < 0 THEN -1 ELSE IF a = FxZero THEN 0 ELSE 1

\* np.isclose(a, 0.0, atol=1e-9): |a - 0.0| <= atol + rtol * |0.0|
np_isclose(a) ==
    \/ a.hi = 0 /\ a.lo <= 1
    \/ a.hi = -1 /\ a.lo >= EpsInv - 1

\* faulty variant: R_p / e * N_int
sample_R_p_e_N_NoParens(p) == Mul(Div(p.R_p, p.e), int(p.N))

\* R_p_e_N = R_p / (e * N_int), with N_int = int(N)
sample_R_p_e_N(p) == Div(p.R_p, Mul(p.e, int(p.N)))

\* denom = R_p_e_N - np.cos(_N_ * t), where t = np.linspace(0, 2*pi,
\* samples): t[i] = i * 2*pi/(samples - 1), i = 0 .. samples - 1
denom(p) ==
    LET _N_ == Sub(Int_(1), int(p.N))
        R_p_e_N == Fx(sample_R_p_e_N(p))
    IN  [i \in 0..(samples - 1) |-> FxSub(R_p_e_N, np_cos(_N_.n * i))]

\* np.where(np.isclose(denom, 0.0, atol=1e-9), np.sign(denom) * eps, denom),
\* at one sample; eps is one unit
denom_safe(dn) == IF np_isclose(dn) THEN FxUnits(np_sign(dn) * 1) ELSE dn

\* bool(np.any(np.isclose(denom, 0.0, atol=1e-9)))
has_singularity(dn) == \E i \in DOMAIN dn : np_isclose(dn[i])

\* sample_curve(R_p, e, r, N) with the default t1, t2 and samples, p the
\* four arguments: the diagnostics, and of phi = np.arctan(np.sin(_N_ * t) /
\* denom_safe) the samples whose denominator was replaced and the samples
\* whose divisor is zero
sample_curve(p) ==
    LET dn == denom(p)
    IN  [diagnostics |->
            [has_singularity |-> has_singularity(dn),
             R_p_over_eN |-> sample_R_p_e_N(p),
             R_p_over_eN_in_unit_interval |->
                InUnitInterval(sample_R_p_e_N(p))],
         replaced |->
            {[i |-> i, denom |-> dn[i], denom_safe |-> denom_safe(dn[i])] :
                i \in {j \in DOMAIN dn : np_isclose(dn[j])}},
         zero_div |-> {i \in DOMAIN dn : denom_safe(dn[i]) = FxZero}]

---------------------------------------------------------------------------
(* The page script *)

\* a Python name that is not bound yet
None == <<"None">>

\* the four arguments of the three functions, from the script's variables
Params == [R_p |-> R_p, e |-> e, r |-> r, N |-> N]

\* what the widgets can return: number_input keeps each value at or above
\* its min_value (0.01, 0.0, 0.01, 2), and N is an int
RpValues == {Float_(10 * k, 2) : k \in 1..MaxRpSteps}
EValues == {Float_(k, 2) : k \in 0..MaxEHalves}
RValues == {Float_(k, 2) : k \in 1..MaxRHalves}
NValues == {Int_(k) : k \in 2..MaxN}

\* R_p, e, r, N = 50.0, 2.5, 2.0, 10
DefaultParams ==
    [R_p |-> Float_(100, 2), e |-> Float_(5, 2), r |-> Float_(4, 2),
     N |-> Int_(10)]

\* str.lower(), on the letters the messages hold
UpperCase == <<"A", "B", "C", "D", "E", "F", "G", "H", "I", "J", "K", "L",
               "M", "N", "O", "P", "Q", "R", "S", "T", "U", "V", "W", "X",
               "Y", "Z">>
LowerCase == <<"a", "b", "c", "d", "e", "f", "g", "h", "i", "j", "k", "l",
               "m", "n", "o", "p", "q", "r", "s", "t", "u", "v", "w", "x",
               "y", "z">>
lower(s) ==
    [i \in 1..Len(s) |->
        IF \E k \in 1..26 : UpperCase[k] = s[i]
        THEN LowerCase[CHOOSE k \in 1..26 : UpperCase[k] = s[i]]
        ELSE s[i]]

\* s.startswith(prefix)
startswith(s, prefix) ==
    Len(s) >= Len(prefix) /\ SubSeq(s, 1, Len(prefix)) = prefix

\* msg.lower().startswith("warning")
IsWarning(msg) ==
    startswith(lower(msg), <<"w", "a", "r", "n", "i", "n", "g">>)

\* html.escape(s): & < > " ' are replaced by entities
RECURSIVE html_escape(_)
html_escape(s) ==
    IF s = <<>> THEN <<>>
    ELSE (CASE Head(s) = "&" -> <<"&", "a", "m", "p", ";">>
            [] Head(s) = "<" -> <<"&", "l", "t", ";">>
            [] Head(s) = ">" -> <<"&", "g", "t", ";">>
            [] Head(s) = "\"" -> <<"&", "q", "u", "o", "t", ";">>
            [] Head(s) = "'" -> <<"&", "#", "x", "2", "7", ";">>
            [] OTHER -> <<Head(s)>>) \o html_escape(Tail(s))

\* "Enter valid parameters and click Generate to see SolidWorks expressions."
InfoEquations ==
    <<"E", "n", "t", "e", "r", " ", "v", "a", "l", "i", "d", " ", "p", "a",
      "r", "a", "m", "e", "t", "e", "r", "s", " ", "a", "n", "d", " ", "c",
      "l", "i", "c", "k", " ", "G", "e", "n", "e", "r", "a", "t", "e", " ",
      "t", "o", " ", "s", "e", "e", " ", "S", "o", "l", "i", "d", "W", "o",
      "r", "k", "s", " ", "e", "x", "p", "r", "e", "s", "s", "i", "o", "n",
      "s", ".">>

\* "Please enter valid parameters and click Generate."
InfoPreview ==
    <<"P", "l", "e", "a", "s", "e", " ", "e", "n", "t", "e", "r", " ", "v",
      "a", "l", "i", "d", " ", "p", "a", "r", "a", "m", "e", "t", "e", "r",
      "s", " ", "a", "n", "d", " ", "c", "l", "i", "c", "k", " ", "G", "e",
      "n", "e", "r", "a", "t", "e", ".">>

\* "Singularity detected in (U+0060)atn(U+0060) argument. In SolidWorks,
\* consider using (U+0060)t2 = 2*pi - 1e-6(U+0060)."
WarnSingularity ==
    <<"S", "i", "n", "g", "u", "l", "a", "r", "i", "t", "y", " ", "d", "e",
      "t", "e", "c", "t", "e", "d", " ", "i", "n", " ", "U+0060", "a", "t",
      "n", "U+0060", " ", "a", "r", "g", "u", "m", "e", "n", "t", ".", " ",
      "I", "n", " ", "S", "o", "l", "i", "d", "W", "o", "r", "k", "s", ",",
      " ", "c", "o", "n", "s", "i", "d", "e", "r", " ", "u", "s", "i", "n",
      "g", " ", "U+0060", "t", "2", " ", "=", " ", "2", "*", "p", "i", " ",
      "-", " ", "1", "e", "-", "6", "U+0060", ".">>

\* (st.warning if msg.lower().startswith("warning") else st.error)(msg)
ShowMessage(msg) ==
    [kind |-> IF IsWarning(msg) THEN "warning" ELSE "error", body |-> msg]

\* faulty variant: the messages are displayed only with valid parameters
MessagesGate_WhenOk == generate /\ ok

\* if generate: (the messages are displayed)
MessagesGate == generate

\* faulty variant: make_sw_equations is called whatever validate_inputs said
EquationsGate_Always == TRUE

\* if ok: (make_sw_equations is called)
EquationsGate == ok

\* if x_expr and y_expr: (the equation cards are rendered)
CardsGate == x_expr # <<>> /\ y_expr # <<>>

\* if ok: (sample_curve is called and the plot drawn)
PreviewGate == ok

Init ==
    /\ pc = "form"
    /\ generate = None
    /\ R_p = None /\ e = None /\ r = None /\ N = None
    /\ ok = None /\ msgs = None
    /\ x_expr = None /\ y_expr = None
    /\ diag = None /\ phi_div = None
    /\ shown = <<>>
    /\ calls = <<>>

\* with st.form("input_form"): the four number_input widgets and the
\* submit button
Form ==
    /\ pc = "form"
    /\ R_p' \in RpValues
    /\ e' \in EValues
    /\ r' \in RValues
    /\ N' \in NValues
    /\ generate' \in BOOLEAN
    /\ pc' = "defaults"
    /\ UNCHANGED <<ok, msgs, x_expr, y_expr, diag, phi_div, shown, calls>>

\* if not generate: R_p, e, r, N = 50.0, 2.5, 2.0, 10
UseDefaults ==
    /\ pc = "defaults"
    /\ IF ~generate
       THEN /\ R_p' = DefaultParams.R_p
            /\ e' = DefaultParams.e
            /\ r' = DefaultParams.r
            /\ N' = DefaultParams.N
       ELSE UNCHANGED <<R_p, e, r, N>>
    /\ pc' = "validate"
    /\ UNCHANGED <<generate, ok, msgs, x_expr, y_expr, diag, phi_div, shown,
                   calls>>

\* ok, msgs = validate_inputs(R_p, e, r, N)
Validate ==
    /\ pc = "validate"
    /\ ok' = validate_inputs(Params).ok
    /\ msgs' = validate_inputs(Params).msgs
    /\ pc' = "messages"
    /\ UNCHANGED <<generate, R_p, e, r, N, x_expr, y_expr, diag, phi_div,
                   shown, calls>>

\* if generate: for msg in msgs: ...
ShowMessages ==
    /\ pc = "messages"
    /\ IF MessagesGate
       THEN shown' = shown \o [i \in 1..Len(msgs) |-> ShowMessage(msgs[i])]
       ELSE UNCHANGED shown
    /\ pc' = "equations"
    /\ UNCHANGED <<generate, R_p, e, r, N, ok, msgs, x_expr, y_expr, diag,
                   phi_div, calls>>

\* if ok: x_expr, y_expr = make_sw_equations(R_p, e, r, N)
\* else: x_expr = y_expr = ""
\* An exception of the call is not caught: the run ends there.
Equations ==
    /\ pc = "equations"
    /\ IF EquationsGate
       THEN /\ calls' = Append(calls, [fn |-> "make_sw_equations",
                                       args |-> Params])
            /\ IF ZeroDivisionError(Params)
               THEN /\ pc' = "crashed"
                    /\ UNCHANGED <<x_expr, y_expr>>
               ELSE /\ pc' = "cards"
                    /\ x_expr' = make_sw_equations(Params)[1]
                    /\ y_expr' = make_sw_equations(Params)[2]
       ELSE /\ x_expr' = <<>>
            /\ y_expr' = <<>>
            /\ pc' = "cards"
            /\ UNCHANGED calls
    /\ UNCHANGED <<generate, R_p, e, r, N, ok, msgs, diag, phi_div, shown>>

\* if x_expr and y_expr: components.html(html_snippet, ...) with the two
\* escaped expressions; else: st.info(...)
Cards ==
    /\ pc = "cards"
    /\ IF CardsGate
       THEN shown' = Append(shown, [kind |-> "html",
                                    body |-> <<html_escape(x_expr),
                                               html_escape(y_expr)>>])
       ELSE shown' = Append(shown, [kind |-> "info", body |-> InfoEquations])
    /\ pc' = "preview"
    /\ UNCHANGED <<generate, R_p, e, r, N, ok, msgs, x_expr, y_expr, diag,
                   phi_div, calls>>

\* if ok: X, Y, _, diag = sample_curve(R_p, e, r, N); st.pyplot(fig);
\*        if diag.get("has_singularity"): st.warning(...)
\* else: st.info(...)
\* An exception of the call is not caught: the run ends there.
Preview ==
    /\ pc = "preview"
    /\ IF PreviewGate
       THEN /\ calls' = Append(calls, [fn |-> "sample_curve",
                                       args |-> Params])
            /\ IF ZeroDivisionError(Params)
               THEN /\ pc' = "crashed"
                    /\ UNCHANGED <<diag, phi_div, shown>>
               ELSE LET res == sample_curve(Params)
                    IN  /\ pc' = "done"
                        /\ diag' = res.diagnostics
                        /\ phi_div' = [replaced |-> res.replaced,
                                       zero_div |-> res.zero_div]
                        /\ shown' = shown
                               \o <<[kind |-> "pyplot", body |-> <<>>]>>
                               \o (IF res.diagnostics.has_singularity
                                   THEN <<[kind |-> "warning",
                                           body |-> WarnSingularity]>>
                                   ELSE <<>>)
       ELSE /\ shown' = Append(shown, [kind |-> "info", body |-> InfoPreview])
            /\ pc' = "done"
            /\ UNCHANGED <<diag, phi_div, calls>>
    /\ UNCHANGED <<generate, R_p, e, r, N, ok, msgs, x_expr, y_expr>>

\* the next interaction runs the script again from the top; nothing of a
\* run is kept for the next one
Rerun ==
    /\ pc \in {"done", "crashed"}
    /\ pc' = "form"
    /\ generate' = None
    /\ R_p' = None /\ e' = None /\ r' = None /\ N' = None
    /\ ok' = None /\ msgs' = None
    /\ x_expr' = None /\ y_expr' = None
    /\ diag' = None /\ phi_div' = None
    /\ shown' = <<>>
    /\ calls' = <<>>

Next ==
    \/ Form
    \/ UseDefaults
    \/ Validate
    \/ ShowMessages
    \/ Equations
    \/ Cards
    \/ Preview
    \/ Rerun

Spec == Init /\ [][Next]_vars

---------------------------------------------------------------------------
(* validate_inputs on raw candidates *)

\* candidates the widgets would refuse: zero and negative lengths, an N
\* below 2, and an N that is a float (integral or not)
CandLengths == {Float_(k, 2) : k \in (-MaxCand)..MaxCand}
CandN ==
    {Int_(k) : k \in (-1)..MaxCandN}
    \cup {Float_(k, 2) : k \in 0..(2 * MaxCandN)}

InitV ==
    /\ pc = "v_pick"
    /\ generate = None
    /\ R_p = None /\ e = None /\ r = None /\ N = None
    /\ ok = None /\ msgs = None
    /\ x_expr = None /\ y_expr = None
    /\ diag = None /\ phi_div = None
    /\ shown = <<>>
    /\ calls = <<>>

\* a caller chooses the arguments
VPick ==
    /\ pc = "v_pick"
    /\ R_p' \in CandLengths
    /\ e' \in CandLengths
    /\ r' \in CandLengths
    /\ N' \in CandN
    /\ pc' = "v_call"
    /\ UNCHANGED <<generate, ok, msgs, x_expr, y_expr, diag, phi_div, shown,
                   calls>>

\* ok, msgs = validate_inputs(R_p, e, r, N)
VCall ==
    /\ pc = "v_call"
    /\ ok' = validate_inputs(Params).ok
    /\ msgs' = validate_inputs(Params).msgs
    /\ pc' = "v_done"
    /\ UNCHANGED <<generate, R_p, e, r, N, x_expr, y_expr, diag, phi_div,
                   shown, calls>>

\* the next call starts from nothing
VAgain ==
    /\ pc = "v_done"
    /\ pc' = "v_pick"
    /\ R_p' = None /\ e' = None /\ r' = None /\ N' = None
    /\ ok' = None /\ msgs' = None
    /\ UNCHANGED <<generate, x_expr, y_expr, diag, phi_div, shown, calls>>

NextV ==
    \/ VPick
    \/ VCall
    \/ VAgain

SpecV == InitV /\ [][NextV]_vars

---------------------------------------------------------------------------
(* Properties of validate_inputs (SpecV) *)

\* the rules as the specification words them, on the values of the
\* arguments
Rule1Passes == N.ty = "int" /\ N.n >= 2 * N.d
Rule2Passes == R_p.n > 0 /\ e.n > 0 /\ r.n > 0
Rule3Passes == e.n * N.n # 0
\* R_p/(e*N) in [-1, 1], for e*N > 0
RatioInside ==
    /\ -(e.n * N.n * R_p.d) <= R_p.n * e.d * N.d
    /\ R_p.n * e.d * N.d <= e.n * N.n * R_p.d
RatioIsOne == R_p.n * e.d * N.d = e.n * N.n * R_p.d

\* the texts of the three errors
TextPins ==
    <<"N", "u", "m", "b", "e", "r", " ", "o", "f", " ", "p", "i", "n", "s",
      " ", "m", "u", "s", "t", " ", "b", "e", " ", "a", "n", " ", "i", "n",
      "t", "e", "g", "e", "r", " ", "U+2265", " ", "2", ".">>
TextPinsClaimed ==
    <<"N", " ", "m", "u", "s", "t", " ", "b", "e", " ", "a", "n", " ", "i",
      "n", "t", "e", "g", "e", "r", " ", "U+2265", " ", "2", ".">>
TextPositive ==
    <<"A", "l", "l", " ", "g", "e", "o", "m", "e", "t", "r", "y", " ", "p",
      "a", "r", "a", "m", "e", "t", "e", "r", "s", " ", "m", "u", "s", "t",
      " ", "b", "e", " ", "p", "o", "s", "i", "t", "i", "v", "e", ".">>
TextNonZero ==
    <<"E", "c", "c", "e", "n", "t", "r", "i", "c", "i", "t", "y", " ",
      "U+00D7", " ", "P", "i", "n", " ", "C", "o", "u", "n", "t", " ", "m",
      "u", "s", "t", " ", "b", "e", " ", "n", "o", "n", "-", "z", "e", "r",
      "o", ".">>

Errors == {TextPins, TextPositive, TextNonZero}
InMsgs(m) == \E i \in 1..Len(msgs) : msgs[i] = m
\* the ratio warning: the one message that is none of the three errors
HasRatioWarning == \E i \in 1..Len(msgs) : msgs[i] \notin Errors

\* C2: validate_inputs returns ok = true exactly when rules 1-3 all pass
\* (N is an int and N >= 2; R_p, e, r > 0; e*N != 0); the ratio warning
\* never changes ok.
C2_OkIffRules ==
    pc = "v_done" => (ok <=> (Rule1Passes /\ Rule2Passes /\ Rule3Passes))

\* a candidate that passes the three rules and draws the ratio warning:
\* ok is true with a message in the list
C2_Witness ==
    pc = "v_done" /\ ok = TRUE /\ Len(msgs) = 1 /\ RatioInside

\* C3: for parameters that pass rules 1-3, ok is true, with no message when
\* R_p/(e*N) is outside [-1, 1] and exactly one message, a warning, when it
\* is inside, both endpoints included.
C3_MessagesOfValid ==
    (pc = "v_done" /\ Rule1Passes /\ Rule2Passes /\ Rule3Passes) =>
        /\ ok = TRUE
        /\ ~RatioInside => msgs = <<>>
        /\ RatioInside =>
              /\ Len(msgs) = 1
              /\ IsWarning(msgs[1])
              /\ msgs[1] \notin Errors

\* valid parameters with R_p/(e*N) = 1, the endpoint, and the warning
C3_Witness ==
    /\ pc = "v_done" /\ Rule1Passes /\ Rule2Passes /\ Rule3Passes
    /\ RatioIsOne /\ Len(msgs) = 1

\* C8 as claimed: whenever rule 1 fails, ok is false and the first message
\* is exactly "N must be an integer >= 2." (with the greater-or-equal sign).
C8_ClaimedText ==
    (pc = "v_done" /\ ~Rule1Passes) =>
        ok = FALSE /\ Len(msgs) >= 1 /\ msgs[1] = TextPinsClaimed

\* C8 as amended: whenever rule 1 fails, ok is false and the first message
\* is exactly "Number of pins must be an integer >= 2." (with the
\* greater-or-equal sign).
C8_FirstMessage ==
    (pc = "v_done" /\ ~Rule1Passes) =>
        ok = FALSE /\ Len(msgs) >= 1 /\ msgs[1] = TextPins

\* rule 1 fails on a float N of integral value at least 2, and on an int
\* below 2 (here the former), with other errors after the first message
C8_Witness ==
    /\ pc = "v_done" /\ N.ty = "float" /\ N.n >= 2 * N.d /\ N.n % N.d = 0
    /\ Len(msgs) = 3

\* C9 as claimed: if the message list contains the ratio warning then ok is
\* true and the list contains no error message.
C9_WarningOnlyWhenOk ==
    (pc = "v_done" /\ HasRatioWarning) =>
        ok = TRUE /\ \A i \in 1..Len(msgs) : msgs[i] \notin Errors

\* C9 as amended: if the message list contains the ratio warning then rule 3
\* raised no error (e*N != 0), the warning is the last message and the only
\* warning, and ok is true exactly when the warning is the only message:
\* the errors of rules 1 and 2 can precede it.
C9_WarningOnlyWhenNonZero ==
    (pc = "v_done" /\ HasRatioWarning) =>
        /\ Rule3Passes
        /\ ~InMsgs(TextNonZero)
        /\ msgs[Len(msgs)] \notin Errors
        /\ \A i \in 1..(Len(msgs) - 1) : msgs[i] \in Errors
        /\ ok <=> (Len(msgs) = 1)

\* the ratio warning after the errors of rule 1 and rule 2
C9_Witness ==
    /\ pc = "v_done" /\ HasRatioWarning /\ ok = FALSE
    /\ InMsgs(TextPins) /\ InMsgs(TextPositive)

\* C10: whenever validate_inputs emits "Eccentricity x Pin Count must be
\* non-zero." it has also emitted the rule 1 error or the rule 2 error; no
\* input fails rule 3 while passing rule 1 and rule 2.
C10_Rule3NeverAlone ==
    pc = "v_done" =>
        /\ InMsgs(TextNonZero) => (InMsgs(TextPins) \/ InMsgs(TextPositive))
        /\ ~Rule3Passes => (~Rule1Passes \/ ~Rule2Passes)

\* rule 3 fails on an int N of zero with positive lengths: rule 1 fails too
C10_Witness ==
    /\ pc = "v_done" /\ InMsgs(TextNonZero) /\ e.n > 0
    /\ msgs = <<TextPins, TextNonZero>>

---------------------------------------------------------------------------
(* Properties of the page (Spec) *)

\* validate_inputs has returned in this run
Validated ==
    pc \in {"messages", "equations", "cards", "preview", "done", "crashed"}

\* C1: make_sw_equations and sample_curve are called only with the
\* parameter set for which validate_inputs returned ok = true; when ok is
\* false neither function is invoked.
C1_CallsOnlyWhenOk ==
    /\ \A i \in 1..Len(calls) :
          /\ calls[i].args = Params
          /\ validate_inputs(calls[i].args).ok
          /\ ok = TRUE
    /\ (Validated /\ ok = FALSE) => calls = <<>>

\* a submitted form with valid parameters: both functions were called
C1_Witness ==
    /\ pc = "done" /\ generate = TRUE /\ Len(calls) = 2
    /\ calls[1].fn = "make_sw_equations" /\ calls[2].fn = "sample_curve"

\* C4 as claimed: the divisor used for phi is nonzero at every sample; a
\* denominator within 1e-9 of zero is replaced by -1e-9 when it is negative
\* and by +1e-9 otherwise, an exactly-zero denominator included.
C4_DivisorNeverZero ==
    (pc = "done" /\ ok = TRUE) =>
        /\ phi_div.zero_div = {}
        /\ \A x \in phi_div.replaced :
              x.denom_safe = FxUnits(IF x.denom.hi < 0 THEN -1 ELSE 1)

\* R_p/(e*N) exceeds 1 by more than eps, for e*N > 0
RatioAboveOneByEps ==
    R_p.n * e.d * N.d - e.n * N.n * R_p.d > (e.n * N.n * R_p.d) \div EpsInv

\* C5 as claimed: has_singularity is true whenever R_p/(e*N) is in [-1, 1]
\* and false whenever it is outside.
C5_FlagIffRatioInside ==
    (pc = "done" /\ ok = TRUE) => (diag.has_singularity <=> RatioInside)

\* C5 as amended: has_singularity is true when R_p/(e*N) = 1 (the sample
\* t = 0 has a zero denominator) and false when R_p/(e*N) exceeds 1 by more
\* than 1e-9; inside (-1, 1) it is true only if a sample lands within 1e-9
\* of a root, which the ratio alone does not decide.
C5_FlagAtOneAndAbove ==
    (pc = "done" /\ ok = TRUE) =>
        /\ RatioIsOne => diag.has_singularity
        /\ RatioAboveOneByEps => ~diag.has_singularity
        /\ diag.has_singularity <=> (phi_div.replaced # {})

\* a ratio strictly inside the interval whose samples all miss the roots:
\* R_p = 10, e = 2.5, N = 10, ratio 0.4
C5_Witness ==
    /\ pc = "done" /\ ok = TRUE /\ RatioInside /\ ~RatioIsOne
    /\ ~diag.has_singularity
    /\ R_p = Float_(20, 2) /\ e = Float_(5, 2) /\ N = Int_(10)

\* C6: in a run where validate_inputs returned ok = false, every error
\* message of the result is shown, x_expr and y_expr are empty, neither the
\* equation cards nor the plot is output, and the two placeholders are.
C6_ErrorsShownOutputWithheld ==
    (pc = "done" /\ ok = FALSE) =>
        /\ \A i \in 1..Len(msgs) :
              ~IsWarning(msgs[i]) =>
                  \E k \in 1..Len(shown) :
                      shown[k] = [kind |-> "error", body |-> msgs[i]]
        /\ \E i \in 1..Len(msgs) : ~IsWarning(msgs[i])
        /\ x_expr = <<>> /\ y_expr = <<>>
        /\ \A k \in 1..Len(shown) : shown[k].kind \notin {"html", "pyplot"}
        /\ \E k \in 1..Len(shown) :
              shown[k] = [kind |-> "info", body |-> InfoEquations]
        /\ \E k \in 1..Len(shown) :
              shown[k] = [kind |-> "info", body |-> InfoPreview]

\* a submitted form with e = 0: two errors, both shown
C6_Witness ==
    /\ pc = "done" /\ ok = FALSE /\ Len(msgs) = 2
    /\ \E k \in 1..Len(shown) : shown[k].kind = "error"

\* text of an expression
Letters ==
    {UpperCase[k] : k \in 1..26} \cup {LowerCase[k] : k \in 1..26}
IsLetter(c) == c \in Letters
IsDigit(c) == c \in {Digits[k] : k \in 1..10}
\* the word w stands in s at position i
WordAt(s, i, w) ==
    i + Len(w) - 1 <= Len(s) /\ SubSeq(s, i, i + Len(w) - 1) = w
\* a run of letters starts at i; a run starting at i ends after k letters
RunStart(s, i) == IsLetter(s[i]) /\ (i = 1 \/ ~IsLetter(s[i - 1]))
RunEnds(s, i, k) == i + k > Len(s) \/ ~IsLetter(s[i + k])
FunctionNames ==
    {<<"c", "o", "s">>,
     <<"s", "i", "n">>,
     <<"a", "t", "n">>}
\* the run of letters starting at i is a function name, the symbol t, or
\* the exponent mark of a numeric literal (digit, e, sign, digit)
AllowedRun(s, i) ==
    \/ \E w \in FunctionNames : WordAt(s, i, w) /\ RunEnds(s, i, 3)
    \/ s[i] = "t" /\ RunEnds(s, i, 1)
    \/ /\ s[i] = "e" /\ RunEnds(s, i, 1)
       /\ i > 1 /\ IsDigit(s[i - 1])
       /\ i + 2 <= Len(s) /\ s[i + 1] \in {"+", "-"} /\ IsDigit(s[i + 2])
OnlySymbolT(s) ==
    /\ \A i \in 1..Len(s) : RunStart(s, i) => AllowedRun(s, i)
    /\ \A i \in 1..Len(s) :
          \/ IsLetter(s[i]) \/ IsDigit(s[i])
          \/ s[i] \in {"(", ")", "*", "/", "+", "-", ".", " "}
    /\ \E i \in 1..Len(s) : s[i] = "t" /\ RunStart(s, i)
NoAtan(s) ==
    \A i \in 1..Len(s) : ~WordAt(s, i, <<"a", "t", "a", "n">>)
SpellsAtn(s) ==
    \E i \in 1..Len(s) : WordAt(s, i, <<"a", "t", "n", "(">>)

\* C7: both strings of make_sw_equations have t as their only free symbol,
\* every other operand being a numeric literal, and spell the arctangent
\* atn: the substring atan occurs in neither.
C7_OnlyTAndAtn ==
    (pc \in {"cards", "preview", "done"} /\ ok = TRUE) =>
        /\ OnlySymbolT(x_expr) /\ NoAtan(x_expr) /\ SpellsAtn(x_expr)
        /\ OnlySymbolT(y_expr) /\ NoAtan(y_expr) /\ SpellsAtn(y_expr)

\* submitted parameters whose ratio 20/21 is baked in to twelve digits
C7_Witness ==
    /\ pc = "done" /\ ok = TRUE /\ generate = TRUE
    /\ \E i \in 1..Len(x_expr) :
          WordAt(x_expr, i, <<"(", "0", ".", "9", "5", "2", "3", "8", "0",
                              "9", "5", "2", "3", "8", "1", "-", "c", "o",
                              "s", "(", "-", "6", "*", "t", ")">>)
    /\ \E i \in 1..Len(y_expr) :
          WordAt(y_expr, i, <<"(", "0", ".", "9", "5", "2", "3", "8", "0",
                              "9", "5", "2", "3", "8", "1", "-", "c", "o",
                              "s", "(", "-", "6", "*", "t", ")">>)

===========================================================================
